---------------------------- MODULE Spec2Model ----------------------------
(***************************************************************************)
(* State-machine model of scripts/plan_issues.py: main()'s sequential and  *)
(* parallel harness, Planner.process_issue, Planner.generate_plan with its *)
(* retry loop, and Planner.throttle.                                       *)
(*                                                                         *)
(* A task is one call process_issue(issue_list[i], i, total); tasks are    *)
(* named by their input position i.  Time advances in ticks of one second  *)
(* (Tick).  Every use the program makes of time.time() is a difference of  *)
(* two readings, so the model keeps the differences: the seconds since     *)
(* _last_call was written, the seconds left until a deadline, the seconds  *)
(* left of a sleep.  A stream (sys.stdout, sys.stderr) points at a sink:   *)
(* sink 0 is the real console, sink i is the io.StringIO buffer of         *)
(* task i.  Of the text written, the model remembers whether some write    *)
(* landed outside the writer's own buffer (stray).  The comments of an     *)
(* issue are followed by kind (github); a second run of the program over   *)
(* the same issues is the step Rerun.                                      *)
(***************************************************************************)
EXTENDS Integers, Sequences, FiniteSets, TLC

(* ------------------------------ bounds -------------------------------- *)
\* largest number of lines the generator process emits in one attempt
MaxLines == 1
\* largest number of comments on an issue
MaxComments == 2

(* -------------------------- program constants ------------------------- *)
MAX_RETRIES == 3

\* values the --timeout, --throttle and --max-parallel options are drawn from
TimeoutChoices == {1}
ThrottleChoices == {0, 2}
MaxParallelChoices == {1, 2}

\* the items of --issues as typed: the texts between the commas
IssueTokens == {"1", "2", "3", " 1", "x"}
\* the --issues lists a run of one item at a time is started with
IssueLists == {<< "1" >>, << "2", " 1" >>, << "1", "x" >>}
\* --replan-reason: absent, a text without shell metacharacters, a text with one
ReasonKinds == {"none", "safe", "unsafe"}

\* what one line of generator output contains
\*   text     : ordinary plan text
\*   blank    : whitespace only
\*   envelope : the CLI's JSON error envelope  "type":"result","subtype":"error"
\*   notice   : a rate-limit notice matched by RATE_LIMIT_RE
\*   envelope_notice : an error envelope whose message is a rate-limit notice
\*   limit_text : text with the words "Limit reached" that RATE_LIMIT_RE does
\*                not match (no "resets <time> (<zone>)" after them)
LineKinds == {"text", "blank", "envelope", "notice", "envelope_notice", "limit_text"}

Console == 0
\* the exit status while main() has not returned
NoExitCode == -1
\* proc.returncode while the process runs, and after proc.kill()
Running == -1
Killed == -9

VARIABLES
    args,            \* parsed command line (argparse namespace)
    main_pc,         \* position of main(): "start", "run", "exit", "usage_error", "crashed"
    exit_code,       \* the exit status of the process
    opts,            \* the frozen Options record
    issue_list,      \* planner.fetch_issues(...)
    pc,              \* pc[i]: position of task i
    data,            \* data[i]: what gh_issue_json returned for task i
    attempt,         \* attempt[i]: loop variable of generate_plan
    launches,        \* launches[i]: generator processes started for task i
    alive,           \* alive[i]: processes task i has started and not yet waited for
    output_lines,    \* output_lines[i]: lines read in the current attempt
    timed_out,       \* timed_out[i]: the flag of the current attempt
    returncode,      \* proc.returncode of the current attempt
    time_left,       \* time_left[i]: deadline - time.time(), -1 once the deadline has passed
    sleep_left,      \* sleep_left[i]: seconds left of the time.sleep task i is in
    plan,            \* plan[i]: value returned by generate_plan / review_plan
    task_result,     \* task_result[i]: the Result process_issue returned
    first_outcome,   \* history: how the first attempt of the running call of
                     \* generate_plan was classified ("none": no attempt finished)
    posts,           \* posts[i]: gh issue comment calls made by task i
    github,          \* github[n]: the comments of issue n that the model follows:
                     \* those there were at the start, then those the program posted
    earlier,         \* the results list of the run before this one (<< >>: none)
    detector,        \* one call of detect_rate_limit: its text, the instant of the
                     \* call, and what it gave
    since_call,      \* time.time() - Planner._last_call, followed up to SinceCap
    throttle_lock,   \* Planner._throttle_lock: holder, or 0 when free
    sys_stdout,      \* the process-wide sys.stdout: a sink
    sys_stderr,      \* the process-wide sys.stderr: a sink
    saved_stdout,    \* saved_stdout[i]: what redirect_stdout of task i restores
    saved_stderr,    \* saved_stderr[i]
    stray,           \* history: some write in parallel mode did not land in the
                     \* writer's own buffer
    indexed_results, \* main(): the keys of the dict indexed_results, in insertion order
    results,         \* main(): the results list
    flushed          \* the print(output) calls of the flush loop: <<position, sink>>

vars == << args, main_pc, exit_code, opts, issue_list, pc, data, attempt, launches,
           alive, detector,
           output_lines, timed_out, returncode, time_left, sleep_left, plan,
           task_result, first_outcome, posts, github, earlier, since_call,
           throttle_lock, sys_stdout, sys_stderr, saved_stdout, saved_stderr, stray,
           indexed_results, results, flushed >>

genVars == << attempt, launches, alive, output_lines, timed_out, returncode,
              time_left, sleep_left, plan >>
throttleVars == << since_call, throttle_lock >>
streamVars == << sys_stdout, sys_stderr, saved_stdout, saved_stderr >>
mainVars == << args, main_pc, exit_code, opts, issue_list, indexed_results,
              flushed, earlier, detector >>

Positions == 1..Len(issue_list)

(* ------------------------------ data ---------------------------------- *)
\* class Result
Result(issue, status, error) == [issue |-> issue, status |-> status, error |-> error]
NoResult == Result(0, "none", "none")

\* the argparse namespace: the options this model follows (--replan-reason
\* implies --replan, so the two are not given together)
ArgSets ==
    { a \in [ auto : BOOLEAN, replan : BOOLEAN, replan_reason : ReasonKinds,
              dry_run : BOOLEAN, parallel : BOOLEAN,
              max_parallel : MaxParallelChoices, timeout : TimeoutChoices,
              throttle : ThrottleChoices, issues : IssueLists ] :
        a.replan => a.replan_reason = "none" }

\* i.strip()
Strip(t) == IF t = " 1" THEN "1" ELSE t
\* str.isdigit()
IsDigit(t) == t \in {"1", "2", "3"}
\* int(i.strip())
ToInt(t) ==
    CASE Strip(t) = "1" -> 1
      [] Strip(t) = "2" -> 2
      [] Strip(t) = "3" -> 3

\* the issue numbers a command line can name
IssueIds == {ToInt(t) : t \in {u \in IssueTokens : IsDigit(Strip(u))}}

\* line 520: issues = [int(i.strip()) for i in args.issues.split(",")]
IssueNumbers(tokens) == [n \in 1..Len(tokens) |-> ToInt(tokens[n])]

\* Options(...) as main() builds it from args
Options(a) ==
    [ auto |-> a.auto, replan |-> (a.replan \/ a.replan_reason # "none"),
      dry_run |-> a.dry_run,
      parallel |-> a.parallel, max_parallel |-> a.max_parallel,
      timeout |-> a.timeout, throttle_seconds |-> a.throttle ]

\* the comments of an issue, each one of
\*   "other"        : no plan marker
\*   "plan"         : "## Detailed Implementation Plan", no "Limit reached"
\*   "plan_limited" : the marker and "Limit reached"
\*   "plan_notice"  : the marker and a notice that RATE_LIMIT_RE matches (it
\*                    ignores case) in another letter case: "limit reached ...
\*                    resets 5pm (UTC)"
CommentKinds == {"other", "plan", "plan_limited", "plan_notice"}
CommentLists == UNION {[1..n -> CommentKinds] : n \in 0..MaxComments}

\* what gh issue view answers for one issue
\*   ok          : the command exited 0
\*   title_long  : len(title) > MAX_TITLE_LENGTH
\*   body_big    : len(body) > MAX_BODY_SIZE
IssueData ==
    [ ok : BOOLEAN, title_long : BOOLEAN, body_big : BOOLEAN,
      comments : CommentLists ]
NoData == [ok |-> FALSE, title_long |-> FALSE, body_big |-> FALSE, comments |-> << >>]
FetchAnswers == {d \in IssueData : d.ok} \cup {NoData}
PlainIssue == [ok |-> TRUE, title_long |-> FALSE, body_big |-> FALSE, comments |-> << >>]

\* what the world outside the program may do in a run:
\*   answers : what gh issue view answers          started : whether Popen succeeds
\*   kinds   : what a line of generator output is   rcs     : the generator's exit codes
\*   posted  : whether gh issue comment succeeds
\*   prompt  : whether .claude/agents/chief-architect.md exists
\*   quiet   : whether the comments of an issue are left to this program (then
\*             gh issue view shows the comments the model follows); otherwise
\*             other users add, edit and delete comments as they like
AnyWorld ==
    [ answers |-> FetchAnswers, started |-> BOOLEAN, kinds |-> LineKinds,
      rcs |-> {0, 1}, posted |-> BOOLEAN, prompt |-> BOOLEAN, quiet |-> FALSE ]
\* a world of healthy issues whose comments can be posted, and a generator
\* that prints plain text, exits with either code at any time, or hangs
PlainWorld ==
    [ answers |-> {PlainIssue}, started |-> {TRUE}, kinds |-> {"text"},
      rcs |-> {0, 1}, posted |-> {TRUE}, prompt |-> {TRUE}, quiet |-> TRUE ]
\* the plain world with a generator whose text may contain "Limit reached"
QuietWorld == [PlainWorld EXCEPT !.kinds = {"text", "limit_text"}]

\* the text generate_plan returns: the lines of one attempt
NoPlan == << >>

\* time.time() - _last_call only matters below the throttle interval
SinceCap(o) == IF o.throttle_seconds > 0 THEN o.throttle_seconds ELSE 0

\* a run: the command line the program is started with
AllRuns == ArgSets

\* the runs that work on one item at a time: sequential mode, and parallel
\* mode with --max-parallel 1
OneAtATime == {r \in AllRuns : r.max_parallel = 1}

\* --auto --parallel --max-parallel 2, with and without --dry-run
ParallelArgs(throttle, dry_run, issues) ==
    [ auto |-> TRUE, replan |-> FALSE, replan_reason |-> "none",
      dry_run |-> dry_run, parallel |-> TRUE,
      max_parallel |-> 2, timeout |-> 1, throttle |-> throttle, issues |-> issues ]
\* the defaults: sequential, interactive
InteractiveArgs(throttle, issues) ==
    [ auto |-> FALSE, replan |-> FALSE, replan_reason |-> "none",
      dry_run |-> FALSE, parallel |-> FALSE,
      max_parallel |-> 1, timeout |-> 1, throttle |-> throttle, issues |-> issues ]

\* the runs in which two workers are at work at a time: two items that are
\* planned concurrently, three items of a dry run, one item named twice; and
\* a sequential interactive run to compare with
TwoWorkers ==
    {ParallelArgs(th, FALSE, << "2", "1" >>) : th \in ThrottleChoices}
    \cup {ParallelArgs(0, TRUE, << "3", "1", "2" >>)}
    \cup {InteractiveArgs(0, << "2", "1" >>)}
    \* an explicit list that names issue 1 twice
    \cup {ParallelArgs(0, FALSE, << "1", " 1" >>)}
    \* --parallel --max-parallel 2 without --auto
    \cup {[ParallelArgs(0, FALSE, << "2", "1" >>) EXCEPT !.auto = FALSE]}

(* ------------------------------ Init ---------------------------------- *)
\* no comment on any issue
NoComments == [n \in IssueIds |-> << >>]

\* the state after p.parse_args() (line 508) of a run of `runs` on issues
\* whose comments are one of `threads`: no item is known yet, nothing has
\* been written, the streams are the console's.  opts and _last_call are
\* functions of args and are held from the start.
Start(runs, threads) ==
    /\ args \in runs
    /\ github \in threads
    /\ earlier = << >>
    /\ main_pc = "start"
    /\ exit_code = NoExitCode
    /\ opts = Options(args)
    /\ issue_list = << >>
    /\ pc = << >>
    /\ data = << >>
    /\ attempt = << >>
    /\ launches = << >>
    /\ alive = << >>
    /\ output_lines = << >>
    /\ timed_out = << >>
    /\ returncode = << >>
    /\ time_left = << >>
    /\ sleep_left = << >>
    /\ plan = << >>
    /\ task_result = << >>
    /\ first_outcome = << >>
    /\ posts = << >>
    /\ saved_stdout = << >>
    /\ saved_stderr = << >>
    \* self._last_call = 0.0, and time.time() is an epoch
    /\ since_call = SinceCap(Options(args))
    /\ throttle_lock = 0
    /\ sys_stdout = Console
    /\ sys_stderr = Console
    /\ stray = FALSE
    /\ indexed_results = << >>
    /\ results = << >>
    /\ flushed = << >>

(* ----------------------- the rate-limit detector ----------------------- *)
\* A text handed to detect_rate_limit is followed by what RATE_LIMIT_RE finds
\* in it: kind "notice" when the expression matches, with the characters of
\* its group `time` and the text of its group `tz`; "limit_only" for the
\* words "Limit reached" without "resets <time> (<zone>)"; "plain" otherwise.
\* An instant is a number of seconds since the epoch.
DaySeconds == 86400
At(day, h, m, sec) == day * DaySeconds + h * 3600 + m * 60 + sec

\* lines 50-60
ALLOWED_TIMEZONES ==
    {"America/Los_Angeles", "America/New_York", "America/Chicago", "America/Denver",
     "America/Phoenix", "UTC", "Europe/London", "Europe/Paris", "Asia/Tokyo"}

\* seconds east of UTC of the local time of a zone (standard time; daylight
\* saving is not followed)
UtcOffset(tz) ==
    CASE tz = "America/Los_Angeles" -> -8 * 3600
      [] tz = "America/New_York" -> -5 * 3600
      [] tz = "America/Chicago" -> -6 * 3600
      [] tz = "America/Denver" -> -7 * 3600
      [] tz = "America/Phoenix" -> -7 * 3600
      [] tz = "UTC" -> 0
      [] tz = "Europe/London" -> 0
      [] tz = "Europe/Paris" -> 3600
      [] tz = "Asia/Tokyo" -> 9 * 3600

\* line 18: import datetime as dt: the names the module dt has (those the
\* program uses, and tzinfo; ZoneInfo is a name of the module zoneinfo)
DatetimeNames == {"datetime", "timezone", "time", "timedelta", "date", "tzinfo"}

\* the characters \d matches among those the group `time` can hold
DigitChars == {"0", "1", "2", "3", "4", "5", "6", "7", "8", "9"}
\* int() of one digit
DigitValue(c) ==
    CASE c = "0" -> 0 [] c = "1" -> 1 [] c = "2" -> 2 [] c = "3" -> 3 [] c = "4" -> 4
      [] c = "5" -> 5 [] c = "6" -> 6 [] c = "7" -> 7 [] c = "8" -> 8 [] c = "9" -> 9
\* int() of one or two digits
Number(ds) ==
    IF Len(ds) = 1 THEN DigitValue(ds[1]) ELSE 10 * DigitValue(ds[1]) + DigitValue(ds[2])
\* str.lower() on the letters the group `time` can hold
Lower(c) == CASE c = "A" -> "a" [] c = "P" -> "p" [] c = "M" -> "m" [] OTHER -> c

\* line 109: re.match(r"^(\d{1,2})(?::(\d{2}))?(am|pm)?$", time_str, re.I) and
\* m.groups(): one or two digits, then optionally a colon and two digits,
\* then optionally am or pm in either case, and nothing else
TimeMatch(time_str) ==
    LET h == Cardinality({n \in 1..Len(time_str) :
                            \A k \in 1..n : time_str[k] \in DigitChars})
        rest == SubSeq(time_str, h + 1, Len(time_str))
        colon == /\ Len(rest) >= 3
                 /\ rest[1] = ":"
                 /\ rest[2] \in DigitChars
                 /\ rest[3] \in DigitChars
        tail == IF colon THEN SubSeq(rest, 4, Len(rest)) ELSE rest
        half == /\ Len(tail) = 2
                /\ Lower(tail[1]) \in {"a", "p"}
                /\ Lower(tail[2]) = "m"
    IN  IF h \in {1, 2} /\ (tail = << >> \/ half)
        THEN [ ok |-> TRUE, hour |-> SubSeq(time_str, 1, h),
               minute |-> IF colon THEN SubSeq(rest, 2, 3) ELSE << >>,
               ampm |-> IF half THEN <<Lower(tail[1]), Lower(tail[2])>> ELSE << >> ]
        ELSE [ ok |-> FALSE, hour |-> << >>, minute |-> << >>, ampm |-> << >> ]

\* what a call gives: None, an epoch, or an exception
NoLimit == [kind |-> "none", value |-> 0, error |-> "none"]
Epoch(v) == [kind |-> "value", value |-> v, error |-> "none"]
Raised(e) == [kind |-> "raise", value |-> 0, error |-> e]
\* the call has not returned
Pending == [kind |-> "pending", value |-> 0, error |-> "none"]

\* parse_reset_epoch(time_str, tz), called at the instant now
ParseResetEpoch(time_str, tz, now) ==
    LET \* lines 103-104
        zone == IF tz \notin ALLOWED_TIMEZONES THEN "America/Los_Angeles" ELSE tz
        \* lines 106-107: now_utc.astimezone(...) and its .date()
        now_local == now + UtcOffset(zone)
        today == now_local \div DaySeconds
        m == TimeMatch(time_str)
        \* lines 113-122
        minute == IF m.minute = << >> THEN 0 ELSE Number(m.minute)
        hour == CASE m.ampm = <<"p", "m">> /\ Number(m.hour) < 12 -> Number(m.hour) + 12
                  [] m.ampm = <<"a", "m">> /\ Number(m.hour) = 12 -> 0
                  [] OTHER -> Number(m.hour)
        \* lines 124-131
        local == today * DaySeconds + hour * 3600 + minute * 60
        next == IF local < now_local THEN local + DaySeconds ELSE local
    IN  \* line 107: the attribute dt.ZoneInfo is looked up first
        IF "ZoneInfo" \notin DatetimeNames THEN Raised("AttributeError")
        \* lines 110-111
        ELSE IF ~m.ok THEN Epoch(now + 3600)
        \* line 126: dt.time() refuses an hour over 23 and a minute over 59
        ELSE IF hour > 23 \/ minute > 59 THEN Raised("ValueError")
        \* line 133
        ELSE Epoch(next - UtcOffset(zone))

\* detect_rate_limit(text), lines 136-140
DetectRateLimit(text, now) ==
    IF text.kind # "notice" THEN NoLimit
    ELSE ParseResetEpoch(text.time, text.tz, now)

\* the time strings of the notices followed: 11:59pm, 9am, 12am, 12PM, 17,
\* 7:05; then 25:00, 11:75, 13:60pm; then pm, 1:5, 123
TimeStrings ==
    { <<"1", "1", ":", "5", "9", "p", "m">>, <<"9", "a", "m">>, <<"1", "2", "a", "m">>,
      <<"1", "2", "P", "M">>, <<"1", "7">>, <<"7", ":", "0", "5">>,
      <<"2", "5", ":", "0", "0">>, <<"1", "1", ":", "7", "5">>,
      <<"1", "3", ":", "6", "0", "p", "m">>,
      <<"p", "m">>, <<"1", ":", "5">>, <<"1", "2", "3">> }
\* the zone names of the notices followed; the last is not on the allow-list
ZoneNames == {"UTC", "Asia/Tokyo", "Mars/Olympus"}
\* the texts handed to the detector
Texts ==
    [kind : {"notice"}, time : TimeStrings, tz : ZoneNames]
    \cup [kind : {"plain", "limit_only"}, time : {<< >>}, tz : {"none"}]
\* the instants of the calls followed: 23:58:00, 23:59:00, 23:59:30, 08:00:00
\* and 00:00:30 UTC of one day
Nows == {At(1, 23, 58, 0), At(1, 23, 59, 0), At(1, 23, 59, 30), At(1, 8, 0, 0),
         At(1, 0, 0, 30)}

\* no call of the detector is followed
NoDetection ==
    [text |-> [kind |-> "no_call", time |-> << >>, tz |-> "none"], now |-> 0,
     result |-> NoLimit]

Init == Start(OneAtATime, {NoComments}) /\ detector = NoDetection
InitTwoWorkers == Start(TwoWorkers, {NoComments}) /\ detector = NoDetection

(* ----------------------------- helpers -------------------------------- *)
\* print(..., file=stream) by task i, for streams that now point at `targets`:
\* the text lands in those sinks
Writes(i, targets) ==
    stray' = (stray \/ (opts.parallel /\ targets \ {i} # {}))

\* log(level, msg): WARN and ERROR go to sys.stderr, the rest to sys.stdout
LogTarget(level) == IF level \in {"WARN", "ERROR"} THEN sys_stderr ELSE sys_stdout

\* process_issue returns r: in parallel mode the worker goes on to leave its
\* redirections, in sequential mode main() appends r to results at once
Return(i, r) ==
    /\ task_result' = [task_result EXCEPT ![i] = r]
    /\ first_outcome' = [first_outcome EXCEPT ![i] = "none"]
    /\ IF opts.parallel
       THEN /\ pc' = [pc EXCEPT ![i] = "exit_stderr"]
            /\ UNCHANGED results
       ELSE /\ pc' = [pc EXCEPT ![i] = "done"]
            /\ results' = Append(results, r)

\* a handler that reports the item as skipped
Swallow(i, e) == Return(i, Result(issue_list[i], "skipped", e))

\* except Exception as e: return Result(issue, "error", str(e))
Raise(i, e) == Return(i, Result(issue_list[i], "error", e))

\* the tasks a pool worker is executing right now
Active == {j \in Positions : pc[j] \notin {"queued", "done"}}

(* ------------------------------ main() -------------------------------- *)
\* a validation that does not look at --parallel
ParallelUnchecked(a) ==
    \/ \E n \in 1..Len(a.issues) : ~IsDigit(Strip(a.issues[n]))
    \/ a.replan_reason = "unsafe"

\* a validation that turns away --parallel with --auto
AutoTestInverted(a) ==
    \/ a.parallel /\ a.auto
    \/ \E n \in 1..Len(a.issues) : ~IsDigit(Strip(a.issues[n]))
    \/ a.replan_reason = "unsafe"

\* lines 510-525: the command lines p.error() rejects
ArgsError(a) ==
    \/ a.parallel /\ ~a.auto
    \/ \E n \in 1..Len(a.issues) : ~IsDigit(Strip(a.issues[n]))
    \/ a.replan_reason = "unsafe"

\* main() ends before the item loop: p.error() prints the usage and exits
\* with status 2; an exception that leaves main() ends the process with
\* status 1
Abort(at, code) ==
    /\ main_pc' = at
    /\ exit_code' = code
    /\ UNCHANGED << issue_list, pc, data, genVars, task_result, first_outcome, posts,
                    saved_stdout, saved_stderr >>

\* main(), lines 508-575: argument validation, Planner(...) with the system
\* prompt found or not, fetch_issues(issues, limit) with an explicit list
StartupWith(found) ==
    /\ main_pc = "start"
    /\ IF ArgsError(args) THEN Abort("usage_error", 2)
       ELSE IF ~found THEN Abort("crashed", 1)
       ELSE LET numbers == IssueNumbers(args.issues)
                tasks == 1..Len(numbers)
            IN  /\ main_pc' = "run"
                /\ issue_list' = numbers
                /\ pc' = [i \in tasks |-> "queued"]
                /\ data' = [i \in tasks |-> NoData]
                /\ attempt' = [i \in tasks |-> 0]
                /\ launches' = [i \in tasks |-> 0]
                /\ alive' = [i \in tasks |-> 0]
                /\ output_lines' = [i \in tasks |-> << >>]
                /\ timed_out' = [i \in tasks |-> FALSE]
                /\ returncode' = [i \in tasks |-> Running]
                /\ time_left' = [i \in tasks |-> 0]
                /\ sleep_left' = [i \in tasks |-> 0]
                /\ plan' = [i \in tasks |-> NoPlan]
                /\ task_result' = [i \in tasks |-> NoResult]
                /\ first_outcome' = [i \in tasks |-> "none"]
                /\ posts' = [i \in tasks |-> 0]
                /\ saved_stdout' = [i \in tasks |-> Console]
                /\ saved_stderr' = [i \in tasks |-> Console]
                /\ UNCHANGED exit_code
    /\ UNCHANGED << args, opts, github, earlier, detector, throttleVars, sys_stdout,
                    sys_stderr, stray, indexed_results, results, flushed >>

Startup(world) == \E found \in world.prompt : StartupWith(found)

\* a pool worker takes the next submitted item off the executor's FIFO queue
\* (parallel), or the for loop of main() reaches item i (sequential)
StartTask(i) ==
    /\ main_pc = "run"
    /\ pc[i] = "queued"
    /\ \A j \in 1..(i-1) : pc[j] # "queued"
    /\ IF opts.parallel
       THEN Cardinality(Active) < opts.max_parallel
       ELSE Len(results) = i - 1
    /\ pc' = [pc EXCEPT ![i] = IF opts.parallel THEN "enter_stdout" ELSE "fetch"]
    /\ UNCHANGED << mainVars, data, genVars, task_result, first_outcome, posts, github, throttleVars,
                    streamVars, stray, results >>

\* redirect_stdout(buffer).__enter__: remember sys.stdout, point it at the buffer
EnterStdout(i) ==
    /\ pc[i] = "enter_stdout"
    /\ saved_stdout' = [saved_stdout EXCEPT ![i] = sys_stdout]
    /\ sys_stdout' = i
    /\ pc' = [pc EXCEPT ![i] = "enter_stderr"]
    /\ UNCHANGED << mainVars, data, genVars, task_result, first_outcome, posts, github, throttleVars,
                    sys_stderr, saved_stderr, stray, results >>

\* redirect_stderr(buffer).__enter__
EnterStderr(i) ==
    /\ pc[i] = "enter_stderr"
    /\ saved_stderr' = [saved_stderr EXCEPT ![i] = sys_stderr]
    /\ sys_stderr' = i
    /\ pc' = [pc EXCEPT ![i] = "fetch"]
    /\ UNCHANGED << mainVars, data, genVars, task_result, first_outcome, posts, github, throttleVars,
                    sys_stdout, saved_stdout, stray, results >>

\* redirect_stderr(buffer).__exit__: put back what was remembered
ExitStderr(i) ==
    /\ pc[i] = "exit_stderr"
    /\ sys_stderr' = saved_stderr[i]
    /\ saved_stderr' = [saved_stderr EXCEPT ![i] = Console]
    /\ pc' = [pc EXCEPT ![i] = "exit_stdout"]
    /\ UNCHANGED << mainVars, data, genVars, task_result, first_outcome, posts, github, throttleVars,
                    sys_stdout, saved_stdout, stray, results >>

\* redirect_stdout(buffer).__exit__, then return (result, buffer.getvalue()):
\* the future of task i completes
ExitStdout(i) ==
    /\ pc[i] = "exit_stdout"
    /\ sys_stdout' = saved_stdout[i]
    /\ saved_stdout' = [saved_stdout EXCEPT ![i] = Console]
    /\ pc' = [pc EXCEPT ![i] = "done"]
    /\ UNCHANGED << mainVars, data, genVars, task_result, first_outcome, posts, github, throttleVars,
                    sys_stderr, saved_stderr, stray, results >>

\* for f in as_completed(futures): indexed_results[futures[f]] = f.result()
Collect(i) ==
    /\ main_pc = "run"
    /\ opts.parallel
    /\ pc[i] = "done"
    /\ \A n \in 1..Len(indexed_results) : indexed_results[n] # i
    /\ indexed_results' = Append(indexed_results, i)
    /\ UNCHANGED << args, main_pc, exit_code, opts, issue_list, flushed, earlier, detector, pc, data,
                    genVars, task_result, first_outcome, posts, github, throttleVars,
                    streamVars, stray, results >>

\* the position that completed k-th
CompletionPosition(k) == indexed_results[k]

\* the position whose buffer the k-th pass of the flush loop prints
FlushPosition(k) == k

\* for i in range(len(issue_list)): print(output, end=""); results.append(result)
Flush ==
    /\ main_pc = "run"
    /\ opts.parallel
    /\ Len(indexed_results) = Len(issue_list)
    /\ Len(results) < Len(issue_list)
    /\ LET k == FlushPosition(Len(results) + 1) IN
         /\ flushed' = Append(flushed, << k, sys_stdout >>)
         /\ results' = Append(results, task_result[k])
    /\ UNCHANGED << args, main_pc, exit_code, opts, issue_list, indexed_results,
                    earlier, detector, pc, data, genVars, task_result, first_outcome, posts, github,
                    throttleVars, streamVars, stray >>

\* a status that is non-zero unless every item was posted
ExitCodeNotPosted(rs) ==
    IF \E k \in 1..Len(rs) : rs[k].status # "posted" THEN 1 ELSE 0

\* line 629: error_count = sum(1 for r in results if r.status == "error")
ErrorCount(rs) == Cardinality({k \in 1..Len(rs) : rs[k].status = "error"})

\* line 630: return 1 if error_count > 0 else 0
ExitCode(rs) == IF ErrorCount(rs) > 0 THEN 1 ELSE 0

\* main(), lines 605-630: the summary and the exit
Finish ==
    /\ main_pc = "run"
    /\ Len(results) = Len(issue_list)
    /\ main_pc' = "exit"
    /\ exit_code' = ExitCode(results)
    /\ UNCHANGED << args, opts, issue_list, indexed_results, flushed, earlier, detector, pc,
                    data, genVars, task_result, first_outcome, posts, github,
                    throttleVars, streamVars, stray, results >>

(* -------------------------- process_issue ------------------------------ *)
\* lines 244-245: the progress line, then gh issue view
Fetch(i, world) ==
    /\ pc[i] = "fetch"
    /\ Writes(i, {LogTarget("INFO")})
    /\ \E answer \in world.answers :
         LET d == IF world.quiet /\ answer.ok
                  THEN [answer EXCEPT !.comments = github[issue_list[i]]]
                  ELSE answer
         IN
         /\ data' = [data EXCEPT ![i] = d]
         /\ IF d.ok
            THEN /\ pc' = [pc EXCEPT ![i] = "validate"]
                 /\ UNCHANGED << task_result, first_outcome, results >>
            ELSE Raise(i, "gh issue view failed")
    /\ UNCHANGED << mainVars, genVars, posts, github, throttleVars, streamVars >>

\* lines 259-267: the scan of the comments stops at the first one that carries
\* the plan marker: "skip" when it has no "Limit reached", "void" when it has
\* (lines 262 and 264: both tests are `in` on the comment body, which tells
\* upper case from lower case)
RECURSIVE ExistingPlan(_)
ExistingPlan(comments) ==
    IF comments = << >> THEN "none"
    ELSE IF Head(comments) \in {"plan", "plan_notice"} THEN "skip"
    ELSE IF Head(comments) = "plan_limited" THEN "void"
    ELSE ExistingPlan(Tail(comments))

\* a check that looks for an existing plan before it looks at the body
SkipBeforeSize(d, o) ==
    IF ~o.replan /\ ExistingPlan(d.comments) = "skip" THEN "skipped"
    ELSE IF d.body_big THEN "too_large"
    ELSE IF o.dry_run THEN "dry-run"
    ELSE "generate"

\* a dry run that goes on to generate
DryRunIgnored(d, o) ==
    IF d.body_big THEN "too_large"
    ELSE IF ~o.replan /\ ExistingPlan(d.comments) = "skip" THEN "skipped"
    ELSE "generate"

\* lines 255-278: what process_issue does with the fetched data d under the
\* options o: the body size is tested first, then the existing plan (unless
\* --replan), then --dry-run
Verdict(d, o) ==
    IF d.body_big THEN "too_large"
    ELSE IF ~o.replan /\ ExistingPlan(d.comments) = "skip" THEN "skipped"
    ELSE IF o.dry_run THEN "dry-run"
    ELSE "generate"

\* lines 247-276: title and body validation, existing-plan check, dry run
Validate(i) ==
    /\ pc[i] = "validate"
    /\ LET d == data[i]
           scan == IF opts.replan THEN "none" ELSE ExistingPlan(d.comments)
           v == Verdict(d, opts)
           levels == (IF d.title_long THEN {"WARN"} ELSE {})
                     \cup (IF ~d.body_big /\ scan = "void" THEN {"INFO"} ELSE {})
                     \cup (IF v = "dry-run" THEN {"INFO"} ELSE {})
       IN
         /\ Writes(i, {LogTarget(l) : l \in levels})
         \* data is not read again after these lines
         /\ data' = [data EXCEPT ![i] = NoData]
         /\ CASE v = "too_large" ->
                 /\ Raise(i, "Issue body too large")
                 /\ UNCHANGED attempt
              [] v = "skipped" ->
                 /\ Return(i, Result(issue_list[i], "skipped", "none"))
                 /\ UNCHANGED attempt
              [] v = "dry-run" ->
                 /\ Return(i, Result(issue_list[i], "dry-run", "none"))
                 /\ UNCHANGED attempt
              [] v = "generate" ->
                 \* plan = self.generate_plan(...): for attempt in range(1, MAX_RETRIES + 1)
                 /\ pc' = [pc EXCEPT ![i] = "throttle"]
                 /\ attempt' = [attempt EXCEPT ![i] = 1]
                 /\ UNCHANGED << task_result, first_outcome, results >>
    /\ UNCHANGED << mainVars, launches, alive, output_lines, timed_out, returncode,
                    time_left, sleep_left, plan, posts, github, throttleVars, streamVars >>

(* ----------------------------- throttle ------------------------------- *)
\* line 297: if self.opts.throttle_seconds <= 0: return
ThrottleSkip(i) ==
    /\ pc[i] = "throttle"
    /\ opts.throttle_seconds <= 0
    /\ pc' = [pc EXCEPT ![i] = "launch"]
    /\ UNCHANGED << mainVars, data, genVars, task_result, first_outcome, posts, github, throttleVars,
                    streamVars, stray, results >>

\* a throttle that never sleeps
NoWait(delta, seconds) == 0

\* lines 301-303: how long the holder of the lock sleeps, delta = now - _last_call
ThrottleWait(delta, seconds) ==
    IF delta < seconds THEN seconds - delta ELSE 0

\* a lock that anybody can take at any time
AlwaysFree(lock) == TRUE

\* line 299: threading.Lock.__enter__ returns only when nobody holds the lock
LockFree(lock) == lock = 0

\* lines 299-303: with self._throttle_lock: now = time.time(); delta = ...
ThrottleAcquire(i) ==
    /\ pc[i] = "throttle"
    /\ opts.throttle_seconds > 0
    /\ LockFree(throttle_lock)
    /\ throttle_lock' = i
    /\ sleep_left' = [sleep_left EXCEPT
                         ![i] = ThrottleWait(since_call, opts.throttle_seconds)]
    /\ pc' = [pc EXCEPT ![i] = "throttle_sleep"]
    /\ UNCHANGED << mainVars, data, attempt, launches, alive, output_lines, timed_out,
                    returncode, time_left, plan, task_result, first_outcome, posts, github, since_call,
                    streamVars, stray, results >>

\* a with block that keeps the lock on exit
StillHeld(holder) == holder

\* line 299: the value of _throttle_lock after the with block of `holder`
Released(holder) == 0

\* line 304 and the end of the with block: the sleep (if any) is over;
\* self._last_call = time.time(); the lock is released
ThrottleRelease(i) ==
    /\ pc[i] = "throttle_sleep"
    /\ sleep_left[i] = 0
    /\ since_call' = 0
    /\ throttle_lock' = Released(i)
    /\ pc' = [pc EXCEPT ![i] = "launch"]
    /\ UNCHANGED << mainVars, data, genVars, task_result, first_outcome, posts, github,
                    streamVars, stray, results >>

(* --------------------------- generate_plan ---------------------------- *)
\* lines 320-351: subprocess.Popen([...]); output_lines = []; timed_out = False;
\* deadline = time.time() + self.opts.timeout
Launch(i, world) ==
    /\ pc[i] = "launch"
    /\ Writes(i, {LogTarget("INFO")})
    /\ \E started \in world.started :
         IF started
         THEN /\ launches' = [launches EXCEPT ![i] = @ + 1]
              /\ alive' = [alive EXCEPT ![i] = @ + 1]
              /\ output_lines' = [output_lines EXCEPT ![i] = << >>]
              /\ timed_out' = [timed_out EXCEPT ![i] = FALSE]
              /\ returncode' = [returncode EXCEPT ![i] = Running]
              /\ time_left' = [time_left EXCEPT ![i] = opts.timeout]
              /\ pc' = [pc EXCEPT ![i] = "reading"]
              /\ UNCHANGED << task_result, first_outcome, results, attempt >>
         ELSE \* Popen raises (no claude executable): no process was started
              /\ Raise(i, "claude not found")
              /\ attempt' = [attempt EXCEPT ![i] = 0]
              /\ UNCHANGED << launches, alive, output_lines, timed_out, returncode, time_left >>
    /\ UNCHANGED << mainVars, data, sleep_left, plan, posts, github, throttleVars, streamVars >>

\* lines 352-358: the next line of proc.stdout arrives, the deadline has not passed
ReadLine(i, world) ==
    /\ pc[i] = "reading"
    /\ time_left[i] >= 0
    /\ Len(output_lines[i]) < MaxLines
    /\ \E k \in world.kinds :
         output_lines' = [output_lines EXCEPT
                            ![i] = Append(@, [kind |-> k, att |-> attempt[i]])]
    /\ Writes(i, {sys_stdout})
    /\ UNCHANGED << mainVars, pc, data, attempt, launches, alive, timed_out, returncode,
                    time_left, sleep_left, plan, task_result, first_outcome, posts, github, throttleVars,
                    streamVars, results >>

\* some line of the output is of one of the kinds ks
HasKind(lines, ks) == \E n \in 1..Len(lines) : lines[n].kind \in ks

\* line 368: combined = "".join(output_lines)
Combined(lines) == [n \in 1..Len(lines) |-> lines[n].kind]

\* line 371: '"type":"result","subtype":"error"' in combined
HasEnvelope(lines) == HasKind(lines, {"envelope", "envelope_notice"})
\* line 137: RATE_LIMIT_RE.search(text)
HasNotice(lines) == HasKind(lines, {"notice", "envelope_notice"})

\* a classification that looks at the exit code before the output
ExitCodeFirst(to, lines, rc) ==
    IF to THEN "timeout"
    ELSE IF rc = 0 THEN "ok"
    ELSE IF HasEnvelope(lines) THEN "cli_error"
    ELSE IF HasNotice(lines) THEN "rate_limited"
    ELSE "exit_code"

\* lines 363-389: the order in which a finished attempt is classified
Outcome(to, lines, rc) ==
    IF to THEN "timeout"
    ELSE IF HasEnvelope(lines) THEN "cli_error"
    ELSE IF HasNotice(lines) THEN "rate_limited"
    ELSE IF rc = 0 THEN "ok"
    ELSE "exit_code"

\* a sleep that grows by two seconds per attempt
LinearBackoff(n) == 2 * n

\* lines 375 and 389: time.sleep(2**attempt)
Backoff(n) == 2^n

\* a test that takes every text for a plan
NeverBlank(text) == FALSE

\* plan.strip() is empty
IsBlank(text) == \A n \in 1..Len(text) : text[n] = "blank"

\* a processor that always opens the editor
AlwaysReview(o) == "review"

\* line 283: where process_issue goes with a plan: the editor unless --auto
AfterPlan(o) == IF o.auto THEN "post" ELSE "review"

\* a read loop that is left without waiting for the process
NotAwaited(n) == n

\* line 360: finally: proc.wait(): the process that was killed or has closed
\* its output is waited for, and is gone when the call returns
AfterWait(n) == n - 1

\* continue / the end of the loop body: the next attempt, or line 391:
\* raise RuntimeError("Claude retries exceeded")
Continue(i, first) ==
    IF attempt[i] < MAX_RETRIES
    THEN /\ attempt' = [attempt EXCEPT ![i] = @ + 1]
         /\ pc' = [pc EXCEPT ![i] = "throttle"]
         /\ first_outcome' = [first_outcome EXCEPT ![i] = first]
         /\ UNCHANGED << task_result, results >>
    ELSE /\ attempt' = [attempt EXCEPT ![i] = 0]
         /\ Raise(i, "Claude retries exceeded")

\* the classification of the first attempt, once attempt 1 is classified as o
First(i, o) == IF attempt[i] = 1 THEN o ELSE first_outcome[i]

\* lines 360-389 and 280-283: the read loop has ended with the flag `to` and the
\* process has exited with `rc`; the attempt is classified and acted upon, up
\* to the next point where the task waits (a sleep, the throttle, the editor,
\* the post).  The locals of the iteration (output_lines, timed_out, deadline,
\* proc) are dead from here on and are reset.
EndAttempt(i, to, rc) ==
    /\ alive' = [alive EXCEPT ![i] = AfterWait(@)]
    /\ output_lines' = [output_lines EXCEPT ![i] = << >>]
    /\ timed_out' = [timed_out EXCEPT ![i] = FALSE]
    /\ returncode' = [returncode EXCEPT ![i] = Running]
    /\ time_left' = [time_left EXCEPT ![i] = 0]
    /\ LET o == Outcome(to, output_lines[i], rc) IN
         CASE o = "timeout" ->
                /\ Writes(i, {sys_stdout, LogTarget("WARN")})
                /\ Continue(i, First(i, o))
                /\ UNCHANGED << sleep_left, plan >>
           [] o \in {"cli_error", "exit_code"} ->
                /\ Writes(i, {sys_stdout, LogTarget("WARN")})
                /\ sleep_left' = [sleep_left EXCEPT ![i] = Backoff(attempt[i])]
                /\ pc' = [pc EXCEPT ![i] = "backoff"]
                /\ first_outcome' = [first_outcome EXCEPT ![i] = First(i, o)]
                /\ UNCHANGED << attempt, plan, task_result, results >>
           [] o = "rate_limited" ->
                \* detect_rate_limit -> parse_reset_epoch, line 107: dt.ZoneInfo
                \* is not an attribute of the datetime module: AttributeError
                /\ Writes(i, {sys_stdout})
                /\ Raise(i, "module 'datetime' has no attribute 'ZoneInfo'")
                /\ attempt' = [attempt EXCEPT ![i] = 0]
                /\ UNCHANGED << sleep_left, plan >>
           [] o = "ok" ->
                \* return combined; then lines 280-283 of process_issue
                /\ Writes(i, {sys_stdout, LogTarget("INFO")})
                /\ UNCHANGED sleep_left
                /\ IF IsBlank(Combined(output_lines[i]))
                   THEN /\ Raise(i, "Empty plan")
                        /\ attempt' = [attempt EXCEPT ![i] = 0]
                        /\ UNCHANGED plan
                   ELSE /\ plan' = [plan EXCEPT ![i] = Combined(output_lines[i])]
                        /\ pc' = [pc EXCEPT ![i] = AfterPlan(opts)]
                        /\ first_outcome' = [first_outcome EXCEPT ![i] = First(i, o)]
                        /\ UNCHANGED << attempt, task_result, results >>
    /\ UNCHANGED << mainVars, data, launches, posts, github, throttleVars, streamVars >>

\* lines 353-356 and 360: a line arrives after the deadline: proc.kill(),
\* timed_out = True, break; proc.wait()
ReadLate(i) ==
    /\ pc[i] = "reading"
    /\ time_left[i] < 0
    /\ EndAttempt(i, TRUE, Killed)

\* lines 352 and 360: proc.stdout reaches end of file (the process has exited
\* with code rc, at any time, before or after the deadline): the loop ends
\* without a look at the clock; proc.wait() gives the exit code
Exit(i, rc) ==
    /\ pc[i] = "reading"
    /\ EndAttempt(i, timed_out[i], rc)

ReadEOF(i, world) == \E rc \in world.rcs : Exit(i, rc)

\* the time.sleep(2**attempt) of lines 375 and 389 is over
BackoffDone(i) ==
    /\ pc[i] = "backoff"
    /\ sleep_left[i] = 0
    /\ Continue(i, first_outcome[i])
    /\ UNCHANGED << mainVars, data, launches, alive, output_lines, timed_out, returncode,
                    time_left, sleep_left, plan, posts, github, throttleVars, streamVars,
                    stray >>

(* ------------------- process_issue after generate_plan ----------------- *)
\* what the editor can leave in review.md: nothing, whitespace, the plan, or
\* other text
Reviewed(text) == {<< >>, << "blank" >>, text, << "edited" >>}

\* lines 435-440: neither the editor nor vim is in PATH
NoEditor(i) ==
    /\ pc[i] = "review"
    /\ Raise(i, "Neither specified editor nor vim found in PATH")
    /\ plan' = [plan EXCEPT ![i] = NoPlan]
    /\ attempt' = [attempt EXCEPT ![i] = 0]
    /\ UNCHANGED << mainVars, data, launches, alive, output_lines, timed_out,
                    returncode, time_left, sleep_left, posts, github, throttleVars,
                    streamVars, stray >>

\* a review whose outcome is dropped
KeepGenerated(generated, reviewed) == generated

\* line 284: plan = self.review_plan(plan): the text process_issue goes on with
ToPost(generated, reviewed) == reviewed

\* lines 284-286 and 442-447: the editor has run and left the text t in review.md
ReviewWith(i, t) ==
    /\ pc[i] = "review"
    /\ IF IsBlank(ToPost(plan[i], t))
       THEN /\ Return(i, Result(issue_list[i], "skipped", "none"))
            /\ plan' = [plan EXCEPT ![i] = NoPlan]
            /\ attempt' = [attempt EXCEPT ![i] = 0]
       ELSE /\ plan' = [plan EXCEPT ![i] = ToPost(plan[i], t)]
            /\ pc' = [pc EXCEPT ![i] = "post"]
            /\ UNCHANGED << attempt, task_result, first_outcome, results >>
    /\ UNCHANGED << mainVars, data, launches, alive, output_lines, timed_out,
                    returncode, time_left, sleep_left, posts, github, throttleVars,
                    streamVars, stray >>

\* lines 284-286 and review_plan
Review(i) == NoEditor(i) \/ \E t \in Reviewed(plan[i]) : ReviewWith(i, t)

\* lines 452-467: the comment post_plan writes is the header
\* "## Detailed Implementation Plan" (with " (Revised)" under --replan) and
\* then the plan text as it is
PostedComment(o, text) ==
    IF \E n \in 1..Len(text) : text[n] = "limit_text" THEN "plan_limited" ELSE "plan"

\* a post whose return code is not looked at
IgnoreReturnCode(ok) == "posted"

\* lines 471-472 and 289: the status after gh issue comment has exited, with
\* return code 0 (ok) or another
AfterPost(ok) == IF ok THEN "posted" ELSE "error"

\* lines 288-289 and post_plan: one call of gh issue comment, which leaves
\* the comment on the issue and exits with 0 (ok), or fails
PostWith(i, ok) ==
    /\ pc[i] = "post"
    /\ posts' = [posts EXCEPT ![i] = @ + 1]
    /\ plan' = [plan EXCEPT ![i] = NoPlan]
    /\ attempt' = [attempt EXCEPT ![i] = 0]
    /\ github' = IF ok
                 THEN [github EXCEPT
                         ![issue_list[i]] = Append(@, PostedComment(opts, plan[i]))]
                 ELSE github
    /\ IF AfterPost(ok) = "posted"
       THEN Return(i, Result(issue_list[i], "posted", "none"))
       ELSE Raise(i, "Failed to post comment")
    /\ UNCHANGED << mainVars, data, launches, alive, output_lines, timed_out,
                    returncode, time_left, sleep_left, throttleVars, streamVars,
                    stray >>

Post(i, world) == \E ok \in world.posted : PostWith(i, ok)

(* ------------------------------- time --------------------------------- *)
\* somebody is waiting for the clock: a sleeper, or a reader whose time_left has
\* not passed yet (once it has, more time changes nothing for the reader)
TimeMatters ==
    \E i \in Positions :
       \/ pc[i] \in {"throttle_sleep", "backoff"} /\ sleep_left[i] > 0
       \/ pc[i] = "reading" /\ time_left[i] >= 0

\* one second passes
Tick ==
    /\ TimeMatters
    /\ since_call' = IF since_call < SinceCap(opts) THEN since_call + 1 ELSE since_call
    /\ sleep_left' = [i \in Positions |->
                        IF sleep_left[i] > 0 THEN sleep_left[i] - 1 ELSE 0]
    /\ time_left' = [i \in Positions |->
                        IF pc[i] = "reading" /\ time_left[i] >= 0
                        THEN time_left[i] - 1 ELSE time_left[i]]
    /\ UNCHANGED << mainVars, pc, data, attempt, launches, alive, output_lines, timed_out,
                    returncode, plan, task_result, first_outcome, posts, github, throttle_lock,
                    streamVars, stray, results >>

(* ------------------------------- Next --------------------------------- *)
\* the steps of the program in a given world
Step(world) ==
    \/ Startup(world)
    \/ Flush
    \/ Finish
    \/ Tick
    \/ \E i \in Positions :
         \/ StartTask(i)
         \/ EnterStdout(i)
         \/ EnterStderr(i)
         \/ Fetch(i, world)
         \/ Validate(i)
         \/ ThrottleSkip(i)
         \/ ThrottleAcquire(i)
         \/ ThrottleRelease(i)
         \/ Launch(i, world)
         \/ ReadLine(i, world)
         \/ ReadLate(i)
         \/ ReadEOF(i, world)
         \/ BackoffDone(i)
         \/ Review(i)
         \/ Post(i, world)
         \/ ExitStderr(i)
         \/ ExitStdout(i)
         \/ Collect(i)

Next == Step(AnyWorld)
NextPlain == Step(PlainWorld)

\* every run of one item at a time, in any world
Spec == Init /\ [][Next]_vars
\* two workers at a time, in the plain world
SpecTwoWorkers == InitTwoWorkers /\ [][NextPlain]_vars

\* the clock advances and the scheduler is fair to every thread that is in
\* throttle(): a step of throttle() that stays possible is taken
ThrottleStep(i) ==
    /\ i \in Positions
    /\ ThrottleSkip(i) \/ ThrottleAcquire(i) \/ ThrottleRelease(i)
\* the runs of TwoWorkers in which throttle() is called: no dry run, and
\* in parallel mode a positive interval
InitThrottled ==
    /\ Start({r \in TwoWorkers : ~r.dry_run /\ (r.parallel => r.throttle > 0)},
             {NoComments})
    /\ detector = NoDetection
FairTwoWorkers ==
    /\ InitThrottled /\ [][NextPlain]_vars
    /\ WF_vars(Tick)
    /\ \A i \in 1..3 : WF_vars(ThrottleStep(i))

\* the scheduler is fair to main() and to every thread, the clock advances,
\* and every call of gh and of the editor returns; when the generator
\* process prints and when it exits is up to that process
WorkerStep(i) ==
    /\ i \in Positions
    /\ \/ StartTask(i)
       \/ EnterStdout(i)
       \/ EnterStderr(i)
       \/ Fetch(i, PlainWorld)
       \/ Validate(i)
       \/ ThrottleSkip(i)
       \/ ThrottleAcquire(i)
       \/ ThrottleRelease(i)
       \/ Launch(i, PlainWorld)
       \/ BackoffDone(i)
       \/ Review(i)
       \/ Post(i, PlainWorld)
       \/ ExitStderr(i)
       \/ ExitStdout(i)
       \/ Collect(i)
MainStep == Startup(PlainWorld) \/ Flush \/ Finish
FairPool ==
    /\ InitTwoWorkers /\ [][NextPlain]_vars
    /\ WF_vars(Tick)
    /\ WF_vars(MainStep)
    /\ \A i \in 1..3 : WF_vars(WorkerStep(i))

(* ----------------------------- a later run ---------------------------- *)
\* main() has returned and the user starts the program again on the same
\* issues, this time without --replan and --replan-reason: a new process,
\* with the comments on GitHub as the run before left them
Rerun ==
    /\ main_pc = "exit"
    /\ earlier = << >>
    /\ earlier' = results
    /\ args' = [args EXCEPT !.replan = FALSE, !.replan_reason = "none"]
    /\ opts' = Options(args')
    /\ main_pc' = "start"
    /\ exit_code' = NoExitCode
    /\ issue_list' = << >>
    /\ pc' = << >>
    /\ data' = << >>
    /\ attempt' = << >>
    /\ launches' = << >>
    /\ alive' = << >>
    /\ output_lines' = << >>
    /\ timed_out' = << >>
    /\ returncode' = << >>
    /\ time_left' = << >>
    /\ sleep_left' = << >>
    /\ plan' = << >>
    /\ task_result' = << >>
    /\ first_outcome' = << >>
    /\ posts' = << >>
    /\ saved_stdout' = << >>
    /\ saved_stderr' = << >>
    /\ since_call' = SinceCap(Options(args'))
    /\ throttle_lock' = 0
    /\ sys_stdout' = Console
    /\ sys_stderr' = Console
    /\ indexed_results' = << >>
    /\ results' = << >>
    /\ flushed' = << >>
    /\ UNCHANGED << github, detector, stray >>

\* runs of one item, in parallel mode with a throttle, interactive, and with
\* --replan; issue 1 starts with any comments
RerunRuns ==
    { ParallelArgs(2, FALSE, << "1" >>),
      InteractiveArgs(0, << "1" >>),
      [InteractiveArgs(0, << "1" >>) EXCEPT !.replan = TRUE] }
InitRerun ==
    /\ Start(RerunRuns, {[NoComments EXCEPT ![1] = c] : c \in CommentLists})
    /\ detector = NoDetection
NextRerun == Step(QuietWorld) \/ Rerun
\* a run and the run after it, in the quiet world
SpecRerun == InitRerun /\ [][NextRerun]_vars

(* -------------------- the detector, called by itself ------------------- *)
\* one call detect_rate_limit(text) at the instant now, for every text and
\* instant followed; the planner is at rest
InitDetector ==
    /\ Start({InteractiveArgs(0, << "1" >>)}, {NoComments})
    /\ detector \in [text : Texts, now : Nows, result : {Pending}]

\* the call returns or raises
Detect ==
    /\ detector.result = Pending
    /\ detector' = [detector EXCEPT !.result = DetectRateLimit(detector.text, detector.now)]
    /\ UNCHANGED << args, main_pc, exit_code, opts, issue_list, indexed_results,
                    flushed, earlier, pc, data, genVars, task_result, first_outcome,
                    posts, github, throttleVars, streamVars, stray, results >>

NextDetector == Detect
SpecDetector == InitDetector /\ [][NextDetector]_vars

(* ============================== claims ================================ *)
\* the identifiers carried by a list of Results
Issues(rs) == [k \in 1..Len(rs) |-> rs[k].issue]

\* C1: in sequential and in parallel mode, whatever order the workers complete
\* in, the results list never holds more than one Result per input position,
\* the Result at position k carries the identifier at input position k, and
\* when main() exits there is a Result for every position.
C1_InputOrder ==
    /\ Len(results) <= Len(issue_list)
    /\ Issues(results) = SubSeq(issue_list, 1, Len(results))
    /\ main_pc = "exit" => Len(results) = Len(issue_list)

\* input [3, 1, 2] in parallel mode, the workers completing in the order of
\* positions 2, 3, 1, and the run is over
C1_Witness ==
    /\ main_pc = "exit"
    /\ opts.parallel
    /\ issue_list = << 3, 1, 2 >>
    /\ indexed_results = << 2, 3, 1 >>
    /\ Issues(results) = << 3, 1, 2 >>

\* C2: in parallel mode every line written while an item is processed lands
\* in the buffer of that item and nowhere else.
C2_OwnBuffer == ~stray

\* C3: in parallel mode the flush loop prints the captured buffers to the
\* console only after every worker has completed, in the order of the input
\* positions.
C3_FlushInOrder ==
    /\ flushed # << >> => \A i \in Positions : pc[i] = "done"
    /\ \A k \in 1..Len(flushed) : flushed[k] = << k, Console >>

\* C4: with a positive interval d, whenever a worker completes an acquisition
\* (writes _last_call and releases the lock) at least d seconds have passed
\* since the acquisition completed before it, whichever worker that was; with
\* d <= 0 the lock is never taken and a call of throttle() returns at once and
\* leaves _last_call alone.
C4_Spacing ==
    [][\A i \in Positions :
          /\ (pc[i] = "throttle_sleep" /\ pc'[i] # "throttle_sleep")
                => since_call >= opts.throttle_seconds
          /\ opts.throttle_seconds <= 0
                => /\ throttle_lock = 0 /\ throttle_lock' = 0
                   /\ pc'[i] # "throttle_sleep"
                   /\ since_call' = since_call
                   /\ pc[i] = "throttle" /\ pc'[i] # "throttle" => pc'[i] = "launch"
      ]_vars

\* two workers, d > 0: worker 1 completed an acquisition and its generator
\* runs, worker 2 has just completed the next acquisition
C4_Witness ==
    /\ opts.parallel
    /\ opts.throttle_seconds > 0
    /\ Len(issue_list) = 2
    /\ pc[1] = "reading" /\ launches[1] = 1
    /\ pc[2] = "launch" /\ launches[2] = 0
    /\ since_call = 0

\* C5: under a fair scheduler and an advancing clock every call of throttle()
\* returns: a worker that waits for the lock or sleeps under it gets to launch
\* the generator.
C5_Returns ==
    \A i \in 1..3 :
       (i \in Positions /\ pc[i] \in {"throttle", "throttle_sleep"})
          ~> (i \in Positions /\ pc[i] = "launch")

\* worker 1 is back in throttle() for its second attempt and waits for the
\* lock, which worker 2 holds
C5_Witness ==
    /\ opts.parallel
    /\ Len(issue_list) = 2
    /\ pc[1] = "throttle" /\ attempt[1] = 2
    /\ pc[2] = "throttle_sleep" /\ throttle_lock = 2

\* the messages of the per-item failures
Failures ==
    { "gh issue view failed", "Issue body too large", "claude not found",
      "Claude retries exceeded", "module 'datetime' has no attribute 'ZoneInfo'",
      "Empty plan", "Neither specified editor nor vim found in PATH",
      "Failed to post comment" }

\* C6: a failure of the fetch, of validation, of generation, of review or of
\* posting ends the call of process_issue with Result(issue, "error", message)
\* and with nothing else; a task that has ended has a Result for its own
\* issue; the next item can be started after any Result; and main() exits
\* only with a Result for every item.
C6_Contained ==
    /\ \A i \in Positions :
          /\ pc[i] \in {"exit_stderr", "exit_stdout", "done"} <=> task_result[i] # NoResult
          /\ task_result[i] # NoResult => task_result[i].issue = issue_list[i]
          /\ task_result[i].status = "error" <=> task_result[i].error \in Failures
          /\ task_result[i].status # "error" => task_result[i].error = "none"
          /\ (main_pc = "run" /\ pc[i] = "queued" /\ \A j \in 1..(i-1) : pc[j] = "done")
                => ENABLED StartTask(i)
    /\ main_pc = "exit" =>
          /\ Len(results) = Len(issue_list)
          /\ \A k \in Positions : results[k] = task_result[k] /\ results[k] # NoResult

\* the first item failed while its output was classified, the second item was
\* planned and posted, and the run is over
C6_Witness ==
    /\ main_pc = "exit"
    /\ Len(results) = 2
    /\ results[1] = Result(2, "error", "module 'datetime' has no attribute 'ZoneInfo'")
    /\ results[2] = Result(1, "posted", "none")

\* C7: a call of generate_plan launches the generator at most MAX_RETRIES
\* times, and when it fails over the attempts' outcomes (none of them handed
\* back as ok) it has made MAX_RETRIES launches and fails with the exhaustion
\* error.
C7_AttemptCap ==
    [][\A i \in Positions :
          /\ launches'[i] <= MAX_RETRIES
          /\ (/\ pc[i] \in {"reading", "backoff"}
              /\ task_result'[i].status = "error"
              /\ task_result'[i].error # "Empty plan")
                => /\ launches[i] = MAX_RETRIES
                   /\ task_result'[i].error = "Claude retries exceeded"
      ]_vars

\* C8: a finished attempt is classified by timeout first, then error envelope,
\* then rate-limit notice, then exit code; text is returned only by an attempt
\* that was not killed at the deadline, whose output has no envelope and no
\* notice and whose exit code is 0, and the text is the output of that attempt.
C8_Classification ==
    [][\A i \in Positions :
          LET lines == output_lines[i]
          IN  /\ ReadLate(i) => pc'[i] \notin {"backoff", "post", "review"}
              /\ \A rc \in {0, 1} :
                    Exit(i, rc) =>
                       /\ HasEnvelope(lines) => pc'[i] = "backoff"
                       /\ ~HasEnvelope(lines) /\ HasNotice(lines)
                             => pc'[i] \notin {"backoff", "post", "review"}
                       /\ ~HasEnvelope(lines) /\ ~HasNotice(lines) /\ rc # 0
                             => pc'[i] = "backoff"
              /\ (pc[i] = "reading" /\ plan'[i] # NoPlan)
                    => /\ Exit(i, 0) /\ ~ReadLate(i)
                       /\ ~HasEnvelope(lines) /\ ~HasNotice(lines)
                       /\ plan'[i] = Combined(lines)
                       /\ \A n \in 1..Len(lines) : lines[n].att = attempt[i]
      ]_vars

\* the third attempt returned its text after two attempts that did not
C8_Witness ==
    \E i \in Positions :
       /\ pc[i] \in {"post", "review"}
       /\ attempt[i] = 3 /\ launches[i] = 3
       /\ plan[i] = << "text" >>

\* C9: an attempt whose generator is still running when the deadline has
\* passed is never classified ok: it does not hand back a plan.
C9_Deadline ==
    [][\A i \in Positions :
          (pc[i] = "reading" /\ time_left[i] < 0) => pc'[i] \notin {"post", "review"}
      ]_vars

\* C10: in auto mode, when the first attempt timed out and the second exits 0
\* with non-empty output free of envelope and notice, the plan goes to the
\* post after exactly 2 launches, and when the post succeeds the Result is
\* posted.
C10_TimeoutRecovery ==
    [][\A i \in Positions :
          (opts.auto /\ first_outcome[i] = "timeout" /\ attempt[i] = 2) =>
             /\ (/\ Exit(i, 0)
                 /\ ~HasEnvelope(output_lines[i]) /\ ~HasNotice(output_lines[i])
                 /\ ~IsBlank(Combined(output_lines[i])))
                   => pc'[i] = "post" /\ launches'[i] = 2
             /\ (pc[i] = "post" /\ pc'[i] # "post")
                   => /\ launches'[i] = 2
                      /\ \/ task_result'[i] = Result(issue_list[i], "posted", "none")
                         \/ task_result'[i].error = "Failed to post comment"
      ]_vars

\* auto mode: the first attempt timed out, the second returned a plan, which
\* is about to be posted
C10_Witness ==
    \E i \in Positions :
       /\ opts.auto
       /\ first_outcome[i] = "timeout"
       /\ attempt[i] = 2 /\ launches[i] = 2
       /\ pc[i] = "post"

\* C11: in sequential and in parallel mode, on any attempt, when the output
\* of an attempt has no error envelope and contains a rate-limit notice, the
\* call of generate_plan goes on: it neither ends with a Result nor sleeps
\* the exponential backoff, and while attempts are left it heads for the next
\* launch.
C11_WaitAndRetry ==
    [][\A i \in Positions : \A rc \in {0, 1} :
          (/\ Exit(i, rc)
           /\ ~HasEnvelope(output_lines[i]) /\ HasNotice(output_lines[i]))
             => /\ pc'[i] # "backoff"
                /\ attempt[i] < MAX_RETRIES
                      => /\ task_result'[i] = NoResult
                         /\ pc'[i] \notin {"exit_stderr", "done"}
      ]_vars

\* C12: an attempt that ends with a rate-limit notice uses up exactly one
\* attempt: while attempts are left the loop goes to the next attempt with
\* one launch made per attempt so far, and a notice on the last attempt ends
\* the call with the exhaustion error after MAX_RETRIES launches.
C12_NoticeConsumesAttempt ==
    [][\A i \in Positions : \A rc \in {0, 1} :
          (/\ Exit(i, rc)
           /\ ~HasEnvelope(output_lines[i]) /\ HasNotice(output_lines[i]))
             => IF attempt[i] < MAX_RETRIES
                THEN /\ attempt'[i] = attempt[i] + 1
                     /\ launches'[i] = attempt[i]
                ELSE /\ launches'[i] = MAX_RETRIES
                     /\ task_result'[i].error = "Claude retries exceeded"
      ]_vars

\* C14: with replan = false, an item of which some comment carries the plan
\* marker without a rate-limit notice ends the checks with status skipped,
\* with no generator launch and no post, however many comments there are and
\* in whatever order (the item's body being within the size limit).
C14_SkipExisting ==
    [][\A i \in Positions :
          (/\ pc[i] = "validate" /\ pc'[i] # "validate"
           /\ ~opts.replan
           /\ ~data[i].body_big
           /\ \E n \in 1..Len(data[i].comments) : data[i].comments[n] = "plan")
             => /\ task_result'[i] = Result(issue_list[i], "skipped", "none")
                /\ launches'[i] = 0 /\ posts'[i] = 0
      ]_vars

\* C15: in every mode, an item whose body exceeds the maximum size ends with
\* status error and the size message, and never has a generator launch or a
\* post; an over-long title with a body within the limit does not make the
\* checks end in error.
C15_BodyLimit ==
    [][\A i \in Positions :
          /\ (pc[i] = "validate" /\ pc'[i] # "validate") =>
                /\ data[i].body_big
                      => task_result'[i] = Result(issue_list[i], "error", "Issue body too large")
                /\ (data[i].title_long /\ ~data[i].body_big)
                      => task_result'[i].status # "error"
          /\ task_result'[i].error = "Issue body too large"
                => launches'[i] = 0 /\ posts'[i] = 0
      ]_vars

\* a dry run with --replan: the item's body was too large, and the run is over
C15_Witness ==
    /\ main_pc = "exit"
    /\ opts.dry_run /\ opts.replan
    /\ results[1] = Result(issue_list[1], "error", "Issue body too large")
    /\ launches[1] = 0 /\ posts[1] = 0

\* C16: with dry_run = true, under every combination of the other options,
\* no generator is launched, the throttle lock is never taken and _last_call
\* never written, no comment is posted, and every item that was fetched, is
\* within the size limit and is not skipped for an existing plan ends with
\* status dry-run.
C16_DryRun ==
    [][opts.dry_run =>
         /\ throttle_lock' = 0 /\ since_call' = since_call
         /\ \A i \in Positions :
               /\ launches'[i] = 0 /\ posts'[i] = 0
               /\ pc'[i] \notin {"throttle", "throttle_sleep", "launch", "reading",
                                 "backoff", "review", "post"}
               /\ (/\ pc[i] = "validate" /\ pc'[i] # "validate"
                   /\ ~data[i].body_big
                   /\ opts.replan \/ ExistingPlan(data[i].comments) # "skip")
                     => task_result'[i] = Result(issue_list[i], "dry-run", "none")
      ]_vars

\* a dry run over two items has ended: one was skipped for its existing plan,
\* the other ended with status dry-run
C16_Witness ==
    /\ main_pc = "exit"
    /\ opts.dry_run /\ ~opts.replan
    /\ Len(results) = 2
    /\ results[1].status = "skipped"
    /\ results[2].status = "dry-run"
    /\ \A i \in Positions : launches[i] = 0 /\ posts[i] = 0

\* C17: when main() returns after the item loop, the exit status is 0 or 1,
\* and it is non-zero exactly when some Result has status error; results
\* with status skipped or dry-run leave it at 0.
C17_ExitCode ==
    main_pc = "exit" =>
       /\ exit_code \in {0, 1}
       /\ exit_code # 0 <=> \E k \in 1..Len(results) : results[k].status = "error"

\* a dry run has ended with one item at status dry-run and one skipped, and
\* the exit status is 0
C17_Witness ==
    /\ main_pc = "exit"
    /\ exit_code = 0
    /\ Len(results) = 2
    /\ results[1].status = "dry-run"
    /\ results[2].status = "skipped"

\* C18: a command line with --parallel and without --auto, with a replan
\* reason that contains a shell metacharacter, or with a non-numeric issue
\* id, and a start without the system prompt file, end main() with a
\* non-zero status before any item exists: no task is created, so nothing is
\* fetched, launched or posted, and the process takes no further step.
C18_StartupAbort ==
    [][/\ (/\ main_pc = "start"
           /\ \/ args.parallel /\ ~args.auto
              \/ args.replan_reason = "unsafe"
              \/ \E n \in 1..Len(args.issues) : ~IsDigit(Strip(args.issues[n])))
             => /\ main_pc' = "usage_error" /\ exit_code' = 2
                /\ issue_list' = << >> /\ pc' = << >>
                /\ launches' = << >> /\ posts' = << >>
       /\ StartupWith(FALSE)
             => /\ main_pc' \in {"usage_error", "crashed"} /\ exit_code' \in {1, 2}
                /\ issue_list' = << >> /\ pc' = << >>
                /\ launches' = << >> /\ posts' = << >>
       /\ main_pc \notin {"usage_error", "crashed"}
      ]_vars

\* the command line was accepted, the system prompt file is missing: main()
\* has ended with the RuntimeError of Planner.__init__ and no item exists
C18_Witness ==
    /\ main_pc = "crashed"
    /\ exit_code = 1
    /\ ~ArgsError(args)
    /\ issue_list = << >> /\ pc = << >>

\* C19: when a run has ended an item with status posted, and the plan it
\* posted does not itself contain "Limit reached", then a later run over the
\* same item with replan = false launches no generator for it (and so posts
\* nothing) and ends it with status skipped.
C19_Resumable ==
    (earlier # << >> /\ ~opts.replan) =>
       \A k \in Positions :
          LET thread == github[issue_list[k]] IN
          (/\ earlier[k].status = "posted"
           /\ posts[k] = 0
           /\ thread[Len(thread)] = "plan")
             => /\ launches[k] = 0
                /\ task_result[k] # NoResult => task_result[k].status = "skipped"

\* the tasks that are inside process_issue
Processing ==
    {i \in Positions : pc[i] \in {"fetch", "validate", "throttle", "throttle_sleep",
                                  "launch", "reading", "backoff", "review", "post"}}

\* C20: in parallel mode, whatever list the command line gave (one that names
\* an identifier twice included), no two workers are inside process_issue
\* for the same issue number at the same time.
C20_Exclusive ==
    opts.parallel =>
       \A i, j \in Processing : i # j => issue_list[i] # issue_list[j]


\* the time strings followed that are a time of day, with the second of the
\* day each one names
TimeOfDay ==
    { << <<"1", "1", ":", "5", "9", "p", "m">>, At(0, 23, 59, 0) >>,
      << <<"9", "a", "m">>, At(0, 9, 0, 0) >>,
      << <<"1", "2", "a", "m">>, At(0, 0, 0, 0) >>,
      << <<"1", "2", "P", "M">>, At(0, 12, 0, 0) >>,
      << <<"1", "7">>, At(0, 17, 0, 0) >>,
      << <<"7", ":", "0", "5">>, At(0, 7, 5, 0) >> }
ValidTimes == {t[1] : t \in TimeOfDay}
\* a call of the detector on a notice has ended
Detected == detector.text.kind = "notice" /\ detector.result # Pending

\* C21: for a notice whose time string is a time of day and whose zone is on
\* the allow-list, at every instant, the detector returns an instant
\* strictly after the instant of the call; for a text the notice pattern
\* does not match it returns None.
C21_FutureReset ==
    /\ ( /\ Detected
         /\ detector.text.time \in ValidTimes
         /\ detector.text.tz \in ALLOWED_TIMEZONES )
       => /\ detector.result.kind = "value"
          /\ detector.result.value > detector.now
    /\ ( /\ detector.text.kind \in {"plain", "limit_only"}
         /\ detector.result # Pending )
       => detector.result = NoLimit

\* C22: for a notice whose time string is not a time of day (not of the shape
\* H[:MM][am|pm], or of that shape with an hour over 23 or a minute over 59),
\* the detector returns the instant of the call plus 3600 and raises nothing.
C22_FailOpen ==
    (Detected /\ detector.text.time \notin ValidTimes)
        => detector.result = Epoch(detector.now + 3600)

\* C23: the instant returned is today's occurrence of the time of day in the
\* zone when that has not passed at the instant of the call, and the
\* occurrence one day later otherwise: with UTC and 11:59pm, 60 seconds
\* ahead at 11:58:00pm and 11:59pm of the next day at 11:59:30pm.
C23_NextOccurrence ==
    \A t \in TimeOfDay :
        ( /\ Detected
          /\ detector.text.time = t[1]
          /\ detector.text.tz \in ALLOWED_TIMEZONES )
        => LET tod == (detector.now + UtcOffset(detector.text.tz)) % DaySeconds
               ahead == IF t[2] >= tod THEN t[2] - tod ELSE t[2] - tod + DaySeconds
           IN  /\ detector.result.kind = "value"
               /\ detector.result.value = detector.now + ahead

\* C24: when attempt k (1, 2 or 3) ends with an error envelope in its output,
\* or with a non-zero exit code and neither envelope nor notice, the task
\* starts a sleep of 2, 4 or 8 seconds; while the sleep lasts only the clock
\* touches the task, one second at a time; the task leaves the sleep only
\* when no second of it is left.
C24_Backoff ==
    [][\A i \in Positions :
        /\ \A rc \in AnyWorld.rcs :
             ( /\ pc[i] = "reading"
               /\ pc'[i] # "reading"
               /\ ~timed_out[i]
               /\ \/ HasEnvelope(output_lines[i])
                  \/ ~HasNotice(output_lines[i]) /\ rc # 0
               /\ Exit(i, rc) )
             => /\ pc'[i] = "backoff"
                /\ attempt[i] \in 1..3
                /\ sleep_left'[i] = CASE attempt[i] = 1 -> 2
                                       [] attempt[i] = 2 -> 4
                                       [] attempt[i] = 3 -> 8
                /\ attempt'[i] = attempt[i]
                /\ launches'[i] = launches[i]
        /\ (pc[i] = "backoff" /\ sleep_left[i] > 0)
             => /\ pc'[i] = "backoff"
                /\ sleep_left'[i] \in {sleep_left[i], sleep_left[i] - 1}
                /\ attempt'[i] = attempt[i]
                /\ launches'[i] = launches[i]
                /\ task_result'[i] = task_result[i]
        /\ (i \in DOMAIN pc' /\ pc[i] = "backoff" /\ pc'[i] # "backoff")
             => sleep_left[i] = 0
      ]_vars

\* the third attempt has ended with exit code 1 and its sleep of 8 seconds
\* has begun
C24_Witness ==
    /\ Len(issue_list) = 1
    /\ pc[1] = "backoff"
    /\ attempt[1] = 3
    /\ sleep_left[1] = 8
    /\ first_outcome[1] = "exit_code"

\* C25: when an attempt has timed out (the process was killed at a line read
\* after the deadline), the task starts no backoff sleep; the attempt counts:
\* the task goes to the throttle of the next attempt while attempts are
\* left, and after the third ends in error "Claude retries exceeded"; the
\* killed process has exited before the task is at the throttle or the
\* launch again; a task never has more than one generator process alive.
C25_TimeoutRetry ==
    [][\A i \in Positions :
        /\ ( /\ pc[i] = "reading"
             /\ time_left[i] < 0
             /\ ReadLate(i) )
           => /\ alive'[i] = 0
              /\ sleep_left'[i] = 0
              /\ pc'[i] # "backoff"
              /\ launches'[i] = launches[i]
              /\ IF attempt[i] < 3
                 THEN /\ pc'[i] = "throttle"
                      /\ attempt'[i] = attempt[i] + 1
                      /\ task_result'[i] = NoResult
                 ELSE task_result'[i] =
                        Result(issue_list[i], "error", "Claude retries exceeded")
        /\ alive'[i] \in {0, 1}
        /\ pc'[i] \in {"throttle", "throttle_sleep", "launch"} => alive'[i] = 0
        /\ launches'[i] > launches[i]
           => /\ alive[i] = 0
              /\ launches'[i] = attempt[i]
              /\ attempt[i] <= 3
      ]_vars

\* the first attempt timed out and its process is gone; the process of the
\* second attempt is running
C25_Witness ==
    /\ Len(issue_list) = 1
    /\ first_outcome[1] = "timeout"
    /\ pc[1] = "reading"
    /\ attempt[1] = 2
    /\ launches[1] = 2
    /\ alive[1] = 1

\* C26: without --replan, when the first comment that carries the plan marker
\* contains a rate-limit notice, the item is not skipped: it goes on to the
\* generator, or with --dry-run ends as dry-run; with --replan no item is
\* skipped at the checks.  (Items whose body is over the size limit end in
\* error before the scan and are left out.)
C26_VoidPlan ==
    [][\A i \in Positions :
          (pc[i] = "validate" /\ pc'[i] # "validate" /\ ~data[i].body_big)
          => LET cs == data[i].comments
                 found == {n \in 1..Len(cs) :
                             cs[n] # "other" /\ \A m \in 1..(n - 1) : cs[m] = "other"}
             IN  /\ ( /\ ~opts.replan
                      /\ \E n \in found : cs[n] \in {"plan_limited", "plan_notice"} )
                    => /\ task_result'[i].status # "skipped"
                       /\ IF opts.dry_run
                          THEN task_result'[i] = Result(issue_list[i], "dry-run", "none")
                          ELSE pc'[i] = "throttle" /\ attempt'[i] = 1
                 /\ opts.replan => task_result'[i].status # "skipped"
      ]_vars

\* C27: when an attempt ends with exit code 0 and its output, free of
\* envelope and notice, is empty or made of whitespace only, the item ends
\* with status error and the detail "Empty plan"; the editor is not opened
\* and no post is made for it, then or later.
C27_EmptyPlan ==
    [][\A i \in Positions :
        /\ ( /\ pc[i] = "reading"
             /\ ~timed_out[i]
             /\ \A n \in 1..Len(output_lines[i]) : output_lines[i][n].kind = "blank"
             /\ Exit(i, 0) )
           => /\ task_result'[i] = Result(issue_list[i], "error", "Empty plan")
              /\ pc'[i] \notin {"review", "post"}
              /\ posts'[i] = 0
        /\ task_result[i].error = "Empty plan"
           => /\ task_result'[i] = task_result[i]
              /\ pc'[i] \notin {"review", "post"}
              /\ posts'[i] = 0
      ]_vars

\* the generator has run once, written nothing but whitespace and exited with code 0,
\* and the item has ended in error "Empty plan"
C27_Witness ==
    /\ Len(issue_list) = 1
    /\ task_result[1] = Result(issue_list[1], "error", "Empty plan")
    /\ launches[1] = 1
    /\ posts[1] = 0
    /\ main_pc = "exit"

\* C28: a plan goes to the editor exactly when --auto is off (and a task is
\* at the editor only with a generated plan that is not blank and without
\* --auto); when the editor leaves an empty or whitespace-only text the item
\* ends as skipped with no post; otherwise the task goes to the post with the
\* text the editor left, that text stays as it is until the post, and the
\* comment posted is made from it.
C28_Review ==
    [][\A i \in Positions :
        /\ ( /\ pc[i] = "reading"
             /\ ~timed_out[i]
             /\ \A n \in 1..Len(output_lines[i]) :
                   output_lines[i][n].kind \in {"text", "blank", "limit_text"}
             /\ \E n \in 1..Len(output_lines[i]) : output_lines[i][n].kind # "blank"
             /\ Exit(i, 0) )
           => pc'[i] = IF opts.auto THEN "post" ELSE "review"
        /\ (pc[i] # "review" /\ pc'[i] = "review")
           => /\ ~opts.auto
              /\ pc[i] = "reading"
              /\ \E n \in 1..Len(plan'[i]) : plan'[i][n] # "blank"
        /\ (pc[i] # "post" /\ pc'[i] = "post" /\ ~opts.auto) => pc[i] = "review"
        /\ \A t \in Reviewed(plan[i]) :
             (pc[i] = "review" /\ ReviewWith(i, t))
             => IF \A n \in 1..Len(t) : t[n] = "blank"
                THEN /\ task_result'[i] = Result(issue_list[i], "skipped", "none")
                     /\ posts'[i] = 0
                     /\ github' = github
                ELSE /\ pc'[i] = "post"
                     /\ plan'[i] = t
        /\ (pc[i] = "post" /\ pc'[i] = "post") => plan'[i] = plan[i]
        /\ (pc[i] = "post" /\ pc'[i] # "post" /\ github' # github)
           => github'[issue_list[i]] =
                 Append(github[issue_list[i]], PostedComment(opts, plan[i]))
        /\ task_result'[i].status = "skipped" => posts'[i] = 0
      ]_vars

\* without --auto, the editor has replaced the generated plan by another
\* text, and the task is about to post that text
C28_Witness ==
    /\ Len(issue_list) = 1
    /\ ~opts.auto
    /\ pc[1] = "post"
    /\ plan[1] = << "edited" >>
    /\ launches[1] = 1

\* C29: an item makes at most one call of gh issue comment in a run; a call
\* that succeeds ends the item as posted, a call that fails ends it in error
\* "Failed to post comment"; and an item has the status posted exactly when it
\* made one call and that call left its comment on the issue.
C29_Post ==
    [][\A i \in Positions :
        /\ posts'[i] <= 1
        /\ (pc[i] = "post" /\ PostWith(i, TRUE))
           => /\ task_result'[i] = Result(issue_list[i], "posted", "none")
              /\ posts'[i] = 1
        /\ (pc[i] = "post" /\ PostWith(i, FALSE))
           => /\ task_result'[i] = Result(issue_list[i], "error", "Failed to post comment")
              /\ posts'[i] = 1
        /\ posts'[i] # posts[i] => pc[i] = "post" /\ pc'[i] # "post"
        /\ task_result'[i] # NoResult
           => ( task_result'[i].status = "posted"
                <=> posts'[i] = 1 /\ Len(github'[issue_list[i]]) = 1 )
      ]_vars

\* a run of two items: the post of the first failed, the post of the second
\* succeeded
C29_Witness ==
    /\ Len(issue_list) = 2
    /\ main_pc = "exit"
    /\ results[1] = Result(issue_list[1], "error", "Failed to post comment")
    /\ results[2] = Result(issue_list[2], "posted", "none")
    /\ posts = << 1, 1 >>
    /\ Len(github[issue_list[1]]) = 0
    /\ Len(github[issue_list[2]]) = 1

\* the workers inside the with block of throttle()
InThrottle == {i \in Positions : pc[i] = "throttle_sleep"}

\* C30: with a positive interval, at most one worker is inside the with
\* block of throttle() and it is the holder of the lock; a worker leaves
\* throttle() only through the with block, and on leaving it releases the
\* lock; _last_call is read (on entering the block) and written (at its end)
\* only by the holder; a worker gets to a launch only from the with block it
\* held itself, and starts a generator only from there, one per passage, on
\* the first attempt and on every retry.
C30_Throttle ==
    [][opts.throttle_seconds > 0 =>
        /\ Cardinality(InThrottle') <= 1
        /\ InThrottle' = (IF throttle_lock' = 0 THEN {} ELSE {throttle_lock'})
        /\ (since_call' # since_call /\ since_call' # since_call + 1)
           => \E i \in Positions :
                 /\ throttle_lock = i
                 /\ pc[i] = "throttle_sleep" /\ pc'[i] = "launch"
                 /\ since_call' = 0
        /\ \A i \in Positions :
             /\ (pc[i] = "throttle" /\ pc'[i] # "throttle")
                => /\ throttle_lock = 0 /\ throttle_lock' = i
                   /\ pc'[i] = "throttle_sleep"
                   /\ sleep_left'[i] =
                        (IF since_call < opts.throttle_seconds
                         THEN opts.throttle_seconds - since_call ELSE 0)
             /\ (pc[i] = "throttle_sleep" /\ pc'[i] # "throttle_sleep")
                => /\ throttle_lock = i /\ throttle_lock' = 0
                   /\ pc'[i] = "launch"
             /\ (pc[i] # "launch" /\ pc'[i] = "launch") => pc[i] = "throttle_sleep"
             /\ (pc[i] = "launch" /\ pc'[i] # "launch")
                => pc'[i] \notin {"throttle", "throttle_sleep"}
             /\ launches'[i] # launches[i]
                => /\ pc[i] = "launch" /\ pc'[i] = "reading"
                   /\ launches'[i] = launches[i] + 1
             /\ (pc[i] # "reading" /\ pc'[i] = "reading") => launches'[i] = launches[i] + 1
      ]_vars

\* two workers, positive interval: worker 1 is inside the with block for its
\* second attempt and holds the lock, worker 2 waits for the lock for its
\* first
C30_Witness ==
    /\ opts.parallel
    /\ opts.throttle_seconds > 0
    /\ Len(issue_list) = 2
    /\ pc[1] = "throttle_sleep" /\ throttle_lock = 1
    /\ attempt[1] = 2 /\ launches[1] = 1
    /\ pc[2] = "throttle" /\ launches[2] = 0

\* C31: in parallel mode the number of items a worker is processing never
\* exceeds --max-parallel; in sequential mode an item is started only when
\* every item before it has its Result in the results list; and every item
\* of the list gets a Result.
C31_Pool ==
    /\ [](opts.parallel => Cardinality(Active) <= opts.max_parallel)
    /\ [][~opts.parallel =>
            \A i \in Positions :
               (pc[i] = "queued" /\ pc'[i] # "queued")
                  => /\ Len(results) = i - 1
                     /\ \A j \in 1..(i - 1) : task_result[j] # NoResult
         ]_vars
    /\ \A i \in 1..3 :
          (i \in Positions /\ pc[i] = "queued")
             ~> (i \in Positions /\ task_result[i] # NoResult)

\* the tasks between the write of review.md and its read (lines 442-447)
Reviewing == {i \in Positions : pc[i] = "review"}

\* C32: at no time are two workers at the review scratch file, and a run in
\* which a worker is at it is a sequential run without --auto.
C32_ReviewAlone ==
    /\ Cardinality(Reviewing) <= 1
    /\ Reviewing # {} => ~opts.parallel /\ ~opts.auto

\* a sequential interactive run of two items: the first was reviewed and
\* posted, the editor is open on the plan of the second
C32_Witness ==
    /\ Len(issue_list) = 2
    /\ ~opts.parallel
    /\ task_result[1].status = "posted"
    /\ pc[2] = "review"

\* C33: in parallel mode, whatever the order in which the workers entered and
\* left their redirections, once every worker has completed sys.stdout and
\* sys.stderr are the console's streams again (so that the flush of the
\* buffers and the summary reach the console).
C33_ConsoleRestored ==
    (opts.parallel /\ \A i \in Positions : pc[i] = "done")
        => sys_stdout = Console /\ sys_stderr = Console
=============================================================================
